---- MODULE Spec2Model ----
(***************************************************************************)
(* yotredash: the render passes (opengl/buffer.rs), the host main loop     *)
(* (main.rs) and node parameters (config/nodes.rs).                        *)
(*                                                                         *)
(* The specifications share the variables:                                 *)
(*   SpecRender  a client of the Buffer API creates and links buffers,     *)
(*               then renders buffer 1 onto the window surface;            *)
(*   Spec        the main loop of main.rs around a Renderer;               *)
(*   FairSpec    Spec, with the program's own steps eventually taken;      *)
(*   SpecParam   NodeParameter::or_default on drawn parameters.            *)
(***************************************************************************)
EXTENDS Integers, Sequences, FiniteSets, TLC

\* ----------------------------------------------------------------- bounds
NBuffers == 4     \* buffers a client of the Buffer API creates
MaxLinks == 4     \* link_depends calls made before rendering
MaxDim == 2       \* window / texture widths and heights are 1..MaxDim
MaxCoord == 1     \* cursor coordinates are 0..MaxCoord
MaxTime == 1      \* clock values are 0..MaxTime
MaxValue == 2     \* parameter values are 0..MaxValue
NNodes == 3       \* nodes a NodeConnection can name
MaxCalls == 2     \* or_default calls recorded

Dims == 1..MaxDim
Coords == 0..MaxCoord
Values == 0..MaxValue
Nodes == 1..NNodes
SURFACE == 0      \* render target id of the window's frame (buffers are 1..)

VARIABLES
    buffers,     \* the Renderer's buffers: sequence of Buffer records
    window,      \* the window's frame: [w, h, pixels]
    stack,       \* call stack of render_to invocations
    log,         \* GPU commands (clear / draw) issued for the current frame
    pc,          \* position of the program
    links,       \* SpecRender: link_depends calls made so far
    paused, closed, pointer, start_time, now, config,   \* locals of main
    held,        \* whether the left mouse button is down
    errlog,      \* lines written with error!()
    param, node_out, resolved   \* SpecParam: a parameter, node outputs, result

vars == <<buffers, window, stack, log, pc, links, paused, closed, pointer,
          start_time, now, config, held, errlog, param, node_out, resolved>>

renderVars == <<buffers, window, stack, log>>
mainVars == <<paused, closed, pointer, start_time, now, config, held, errlog>>
paramVars == <<param, node_out, resolved>>

\* ------------------------------------------------------------ buffer.rs
\* Texture2d::empty(facade, width, height)
TextureEmpty(width, height) == [w |-> width, h |-> height, pixels |-> "empty"]

\* Buffer::new on the success path: program compiled from the two shader
\* sources, texture allocated at the configured size, no dependencies yet.
BufferNew(bconfig, attachments) ==
    [texture |-> TextureEmpty(bconfig.width, bconfig.height),
     program |-> [vertex |-> bconfig.vertex, fragment |-> bconfig.fragment],
     attachments |-> attachments,
     depends |-> <<>>]

\* a link_depends that puts the new dependencies in front
LinkDependsInFront(buffer, depends) ==
    [buffer EXCEPT !.depends = depends \o @]

\* Buffer::link_depends: self.depends.append(depends)
LinkDepends(buffer, depends) ==
    [buffer EXCEPT !.depends = @ \o depends]

\* a resize that mixes up its two arguments
BufferResizeSwapped(buffer, width, height) ==
    [buffer EXCEPT !.texture = TextureEmpty(height, width)]

\* Buffer::resize: the texture is replaced by an empty one of the new size
BufferResize(buffer, width, height) ==
    [buffer EXCEPT !.texture = TextureEmpty(width, height)]

\* surface.get_dimensions() of a render target
Target(t) == IF t = SURFACE THEN window ELSE buffers[t].texture
GetDimensions(t) == <<Target(t).w, Target(t).h>>

\* format!("texture{}", i) / format!("buffer{}", i): prefix and 0-based index
UniformName(prefix, i) == <<prefix, i>>

\* the "pointer" uniform of render_to
PointerUniform(dim, ptr) ==
    <<ptr[1], dim[1] - ptr[2], ptr[3], dim[2] - ptr[4]>>

\* "texture{i}" samplers, one per attachment, in attachment order
AttachmentUniforms(attachments) ==
    [i \in 1..Len(attachments) |->
        [name |-> UniformName("texture", i - 1),
         value |-> [kind |-> "attachment", id |-> attachments[i]]]]

\* render_to up to its dependency loop: the uniforms pushed before it
EntryUniforms(p, t, time, ptr) ==
    <<[name |-> <<"resolution">>, value |-> GetDimensions(t)],
      [name |-> <<"time">>, value |-> time],
      [name |-> <<"pointer">>, value |-> PointerUniform(GetDimensions(t), ptr)]>>
    \o AttachmentUniforms(buffers[p].attachments)

\* the "buffer{i}" sampler pushed after dependency i (1-based) was rendered
DependUniform(p, i) ==
    [name |-> UniformName("buffer", i - 1),
     value |-> [kind |-> "buffer", id |-> buffers[p].depends[i]]]

\* a write that also takes the dependencies out of the buffer written to
WithPixelsDrainingDepends(t, px) ==
    /\ window' = IF t = SURFACE THEN [window EXCEPT !.pixels = px] ELSE window
    /\ buffers' = IF t = SURFACE THEN buffers
                  ELSE [buffers EXCEPT ![t].texture.pixels = px, ![t].depends = <<>>]

\* writes of pixels to a render target
WithPixels(t, px) ==
    /\ window' = IF t = SURFACE THEN [window EXCEPT !.pixels = px] ELSE window
    /\ buffers' = IF t = SURFACE THEN buffers
                  ELSE [buffers EXCEPT ![t].texture.pixels = px]

\* a loop that walks the dependencies from the back
NextDependReversed(p, i) == buffers[p].depends[Len(buffers[p].depends) + 1 - i]

\* the dependency the loop of render_to visits at 1-based position i
NextDepend(p, i) == buffers[p].depends[i]

\* recursion deeper than the number of buffers repeats a buffer and never
\* returns: the process runs out of stack
MaxDepth == Len(buffers) + 1

\* a render_to that does not clear its target
RenderToEnterWithoutClear(p, t, time, ptr) ==
    /\ UNCHANGED <<window, buffers, log>>
    /\ stack' = Append(stack, [buf |-> p, target |-> t, i |-> 1,
                               time |-> time, pointer |-> ptr,
                               uniforms |-> EntryUniforms(p, t, time, ptr)])

\* A call of render_to(p) on target t: clears the target and pushes the
\* uniforms that precede the dependency loop.
RenderToEnter(p, t, time, ptr) ==
    /\ WithPixels(t, "cleared")
    /\ log' = Append(log, [op |-> "clear", buf |-> p, target |-> t])
    /\ stack' = Append(stack, [buf |-> p, target |-> t, i |-> 1,
                               time |-> time, pointer |-> ptr,
                               uniforms |-> EntryUniforms(p, t, time, ptr)])

Top == stack[Len(stack)]

\* a render_to_self that hands on the caller's surface
RenderToSelfOnCallersSurface ==
    /\ pc = "render" /\ stack # <<>>
    /\ Top.i <= Len(buffers[Top.buf].depends)
    /\ Len(stack) < MaxDepth
    /\ LET d == NextDepend(Top.buf, Top.i)
       IN RenderToEnter(d, Top.target, Top.time, Top.pointer)
    /\ UNCHANGED <<pc, links, mainVars, paramVars>>

\* the dependency loop calls render_to_self on the next dependency, which
\* calls render_to on the dependency's own texture
RenderToSelf ==
    /\ pc = "render" /\ stack # <<>>
    /\ Top.i <= Len(buffers[Top.buf].depends)
    /\ Len(stack) < MaxDepth
    /\ LET d == NextDepend(Top.buf, Top.i)
       IN RenderToEnter(d, d, Top.time, Top.pointer)
    /\ UNCHANGED <<pc, links, mainVars, paramVars>>

\* unbounded recursion around a dependency cycle
StackOverflow ==
    /\ pc = "render" /\ stack # <<>>
    /\ Top.i <= Len(buffers[Top.buf].depends)
    /\ Len(stack) >= MaxDepth
    /\ pc' = "overflow"
    /\ UNCHANGED <<renderVars, links, mainVars, paramVars>>

\* all dependencies rendered: surface.draw(...), return; the caller pushes
\* the sampler of the dependency just rendered and moves on
Draw ==
    /\ pc = "render" /\ stack # <<>>
    /\ Top.i > Len(buffers[Top.buf].depends)
    /\ WithPixels(Top.target, "drawn")
    /\ log' = Append(log, [op |-> "draw", buf |-> Top.buf, target |-> Top.target,
                           program |-> buffers[Top.buf].program,
                           uniforms |-> Top.uniforms])
    /\ LET n == Len(stack) IN
       stack' = IF n = 1 THEN <<>>
                ELSE LET caller == stack[n - 1] IN
                     [SubSeq(stack, 1, n - 1) EXCEPT ![n - 1] =
                        [caller EXCEPT !.uniforms =
                                          Append(@, DependUniform(caller.buf, caller.i)),
                                       !.i = @ + 1]]
    /\ UNCHANGED <<pc, links, mainVars, paramVars>>

\* ------------------------------------------------- SpecRender: Buffer API
DefaultBufferConfig(id) ==
    [vertex |-> "vertex", fragment |-> id, width |-> 1, height |-> 1]

\* the attachments handed to Buffer::new for the id-th buffer: one, two or
\* none of the two images, which buffers share
DefaultAttachments(id) == SubSeq(<<"image0", "image1">>, 1, id % 3)

\* Buffer::new called for one more buffer. Buffers are numbered in the order
\* in which they are first linked: a further buffer is created once the
\* latest one appears in a depends list or has one.
New ==
    /\ pc = "link"
    /\ Len(buffers) < NBuffers
    /\ Len(buffers) >= 2 =>
          \E b \in 1..Len(buffers) :
             \/ Len(buffers) \in {buffers[b].depends[j] : j \in 1..Len(buffers[b].depends)}
             \/ (b = Len(buffers) /\ buffers[b].depends # <<>>)
    /\ buffers' = Append(buffers, BufferNew(DefaultBufferConfig(Len(buffers) + 1),
                                           DefaultAttachments(Len(buffers) + 1)))
    /\ UNCHANGED <<window, stack, log, pc, links, mainVars, paramVars>>

\* p.borrow_mut().link_depends(&mut vec![d])
LinkDependsCall ==
    /\ pc = "link"
    /\ links < MaxLinks
    /\ \E p \in 1..Len(buffers), d \in 1..Len(buffers) :
          buffers' = [buffers EXCEPT ![p] = LinkDepends(buffers[p], <<d>>)]
    /\ links' = links + 1
    /\ UNCHANGED <<window, stack, log, pc, mainVars, paramVars>>

\* buffer 1 is rendered onto the window's frame
RenderCall ==
    /\ pc = "link"
    /\ Len(buffers) >= 1
    /\ pc' = "render"
    /\ RenderToEnter(1, SURFACE, 0, <<0, 0, 0, 0>>)
    /\ UNCHANGED <<links, mainVars, paramVars>>

InitRender ==
    /\ buffers = <<>>
    /\ window = TextureEmpty(1, 1)
    /\ stack = <<>>
    /\ log = <<>>
    /\ pc = "link"
    /\ links = 0
    /\ paused = FALSE /\ closed = FALSE /\ pointer = <<0, 0, 0, 0>>
    /\ held = FALSE
    /\ start_time = 0 /\ now = 0 /\ config = 0 /\ errlog = <<>>
    /\ param = [kind |-> "Static", value |-> 0]
    /\ node_out = <<>>
    /\ resolved = <<>>

NextRender == New \/ LinkDependsCall \/ RenderCall \/ RenderToSelf \/ StackOverflow \/ Draw

SpecRender == InitRender /\ [][NextRender]_vars

\* a render_to call that has started keeps running
FairSpecRender == SpecRender /\ WF_vars(RenderToSelf \/ Draw)

\* ------------------------------------------------------------- Renderer
\* The Renderer (opengl/renderer.rs) owns the buffers; buffer 1 is the output
\* pass. A Config lists one BufferConfig per buffer with its attachments and
\* the indices of the buffers it depends on.
BConfig(fragment, attachments, depends) ==
    [vertex |-> "vertex", fragment |-> fragment, width |-> 1, height |-> 2,
     attachments |-> attachments, depends |-> depends]

Configs ==
    {<<BConfig("solo", <<"image0">>, <<>>)>>,
     <<BConfig("main", <<"image0", "image1">>, <<2>>), BConfig("blur", <<"image0">>, <<>>)>>}

\* Renderer::new / Renderer::reload on the success path: every buffer is
\* created with Buffer::new, then linked to its dependencies
Build(c) ==
    [b \in 1..Len(c) |->
        LinkDepends(BufferNew(c[b], c[b].attachments), c[b].depends)]

\* Renderer::resize: every buffer reallocates its texture
RendererResize(bufs, width, height) ==
    [b \in 1..Len(bufs) |-> BufferResize(bufs[b], width, height)]

\* the points at which Buffer::new gives up, with the line it logs
NewFailures ==
    {"Could not open vertex shader file", "Could not read vertex shader file",
     "Could not open fragment shader file", "Could not read fragment shader file",
     "program creation error"}

\* ---------------------------------------------------------------- main.rs
\* time::now() advances
Tick ==
    /\ pc \in {"loop", "signal"}
    /\ now < MaxTime
    /\ now' = now + 1
    /\ UNCHANGED <<renderVars, pc, links, paused, closed, pointer, start_time,
                   config, held, errlog, paramVars>>

\* while !closed: the loop ends
LoopExit ==
    /\ pc = "loop" /\ closed
    /\ pc' = "done"
    /\ UNCHANGED <<renderVars, links, mainVars, paramVars>>

\* what Renderer::render hands to render_to: the elapsed time since the
\* time origin and the host's pointer state
FrameContext == [time |-> now - start_time, pointer |-> pointer]

\* Renderer::render: the output buffer is rendered onto the window's frame
RendererRender(ctx) == RenderToEnter(1, SURFACE, ctx.time, ctx.pointer)

\* a loop that renders whether paused or not
MainRenderIgnoringPaused ==
    /\ pc = "loop" /\ ~closed
    /\ pc' = "render"
    /\ RendererRender(FrameContext)
    /\ UNCHANGED <<links, mainVars, paramVars>>

\* a loop that tests closed only after rendering once more
MainRenderIgnoringClosed ==
    /\ pc = "loop" /\ ~paused
    /\ pc' = "render"
    /\ RendererRender(FrameContext)
    /\ UNCHANGED <<links, mainVars, paramVars>>

\* while !closed { if !paused { renderer.render(); } ...
MainRender ==
    /\ pc = "loop" /\ ~closed /\ ~paused
    /\ pc' = "render"
    /\ RendererRender(FrameContext)
    /\ UNCHANGED <<links, mainVars, paramVars>>

\* render_to on the frame has returned: the frame is finished
FrameFinish ==
    /\ pc = "render" /\ stack = <<>>
    /\ pc' = "signal"
    /\ log' = <<>>
    /\ UNCHANGED <<buffers, window, stack, links, mainVars, paramVars>>

\* paused: no render in this iteration
SkipRender ==
    /\ pc = "loop" /\ ~closed /\ paused
    /\ pc' = "signal"
    /\ UNCHANGED <<renderVars, links, mainVars, paramVars>>

\* trap.wait(now) returns None
NoSignal ==
    /\ pc = "signal"
    /\ pc' = "events"
    /\ UNCHANGED <<renderVars, links, mainVars, paramVars>>

\* a SIGUSR1 that toggles the flag
SIGUSR1Toggling ==
    /\ pc = "signal"
    /\ paused' = ~paused
    /\ pc' = "events"
    /\ UNCHANGED <<renderVars, links, closed, pointer, start_time, now, config,
                   held, errlog, paramVars>>

SIGUSR1 ==
    /\ pc = "signal"
    /\ paused' = TRUE
    /\ pc' = "events"
    /\ UNCHANGED <<renderVars, links, closed, pointer, start_time, now, config,
                   held, errlog, paramVars>>

SIGUSR2 ==
    /\ pc = "signal"
    /\ paused' = FALSE
    /\ pc' = "events"
    /\ UNCHANGED <<renderVars, links, closed, pointer, start_time, now, config,
                   held, errlog, paramVars>>

\* a reload that keeps the old time origin
ReloadOkKeepingOrigin(c) ==
    /\ config' = c
    /\ buffers' = Build(c)
    /\ pc' = "events"
    /\ UNCHANGED <<start_time, errlog>>

\* SIGHUP, every Buffer::new succeeds: the buffers are rebuilt from the
\* re-parsed configuration and the time origin is reset
ReloadOk(c) ==
    /\ config' = c
    /\ buffers' = Build(c)
    /\ start_time' = now
    /\ pc' = "events"
    /\ UNCHANGED errlog

\* SIGHUP, a Buffer::new fails: error!(...) and std::process::exit(1)
ReloadExit(c, failure) ==
    /\ config' = c
    /\ errlog' = Append(errlog, failure)
    /\ pc' = "exit1"
    /\ UNCHANGED <<buffers, start_time>>

SIGHUP ==
    /\ pc = "signal"
    /\ \E c \in Configs :
          \/ ReloadOk(c)
          \/ \E failure \in NewFailures : ReloadExit(c, failure)
    /\ UNCHANGED <<window, stack, log, links, paused, closed, pointer, now, held,
                   paramVars>>

\* (the FPS report between the signal and the event handling, main.rs 84-92,
\* only prints and is left out)

\* WindowEvent::Resized(width, height): the window has the new size and the
\* renderer resizes its buffers
Resized ==
    /\ pc = "events"
    /\ \E width \in Dims, height \in Dims :
          /\ buffers' = RendererResize(buffers, width, height)
          /\ window' = TextureEmpty(width, height)
    /\ UNCHANGED <<stack, log, pc, links, mainVars, paramVars>>

\* WindowEvent::Closed, or KeyboardInput with Escape
Closed ==
    /\ pc = "events"
    /\ closed' = TRUE
    /\ UNCHANGED <<renderVars, pc, links, paused, pointer, start_time, now, config,
                   held, errlog, paramVars>>

\* WindowEvent::MouseMoved
MouseMoved ==
    /\ pc = "events"
    /\ \E x \in Coords, y \in Coords :
          pointer' = <<x, y, pointer[3], pointer[4]>>
    /\ UNCHANGED <<renderVars, pc, links, paused, closed, start_time, now, config,
                   held, errlog, paramVars>>

\* WindowEvent::MouseInput, left button, ElementState::Pressed
Pressed ==
    /\ pc = "events"
    /\ pointer' = <<pointer[1], pointer[2], pointer[1], pointer[2]>>
    /\ held' = TRUE
    /\ UNCHANGED <<renderVars, pc, links, paused, closed, start_time, now, config,
                   errlog, paramVars>>

\* a release handler that forgets to reset the drag origin
ReleasedKeepingOrigin ==
    /\ pc = "events"
    /\ held' = FALSE
    /\ UNCHANGED <<renderVars, pc, links, paused, closed, pointer, start_time, now,
                   config, errlog, paramVars>>

\* WindowEvent::MouseInput, left button, ElementState::Released
Released ==
    /\ pc = "events"
    /\ pointer' = <<pointer[1], pointer[2], 0, 0>>
    /\ held' = FALSE
    /\ UNCHANGED <<renderVars, pc, links, paused, closed, start_time, now, config,
                   errlog, paramVars>>

\* poll_events has handed over every pending event
PollReturn ==
    /\ pc = "events"
    /\ pc' = "loop"
    /\ UNCHANGED <<renderVars, links, mainVars, paramVars>>

Init ==
    /\ \E c \in Configs : config = c /\ buffers = Build(c)
    /\ window = TextureEmpty(1, 2)
    /\ stack = <<>>
    /\ log = <<>>
    /\ pc = "loop"
    /\ links = 0
    /\ paused = FALSE /\ closed = FALSE /\ pointer = <<0, 0, 0, 0>>
    /\ held = FALSE
    /\ start_time = 0 /\ now = 0 /\ errlog = <<>>
    /\ param = [kind |-> "Static", value |-> 0]
    /\ node_out = <<>>
    /\ resolved = <<>>

Next ==
    \/ Tick \/ LoopExit \/ MainRender \/ RenderToSelf \/ Draw \/ FrameFinish
    \/ SkipRender \/ NoSignal \/ SIGUSR1 \/ SIGUSR2 \/ SIGHUP
    \/ Resized \/ Closed \/ MouseMoved \/ Pressed \/ Released \/ PollReturn

Spec == Init /\ [][Next]_vars

\* the steps the program takes by itself; signals and window events are the
\* environment's
ProgramStep ==
    \/ LoopExit \/ MainRender \/ RenderToSelf \/ Draw \/ FrameFinish
    \/ SkipRender \/ NoSignal \/ PollReturn

\* the single thread keeps running: trap.wait(now) and poll_events return
FairSpec == Spec /\ WF_vars(ProgramStep)

\* ------------------------------------------------------- config/nodes.rs
\* Default::default() of the parameter's type
DefaultValue == 0

Static(v) == [kind |-> "Static", value |-> v]
NodeConnection(n) == [kind |-> "NodeConnection", node |-> n]

\* an or_default that forgets the Static arm
OrDefaultAlways(p) == DefaultValue

\* NodeParameter::or_default
OrDefault(p) ==
    IF p.kind = "Static" THEN p.value ELSE DefaultValue

\* a call of or_default on the parameter
OrDefaultCall ==
    /\ pc = "param"
    /\ Len(resolved) < MaxCalls
    /\ resolved' = Append(resolved, OrDefault(param))
    /\ UNCHANGED <<renderVars, pc, links, mainVars, param, node_out>>

\* a node renders and its output changes
NodeOutput ==
    /\ pc = "param"
    /\ \E n \in Nodes, v \in Values : node_out' = [node_out EXCEPT ![n] = v]
    /\ UNCHANGED <<renderVars, pc, links, mainVars, param, resolved>>

InitParam ==
    /\ buffers = <<>>
    /\ window = TextureEmpty(1, 1)
    /\ stack = <<>>
    /\ log = <<>>
    /\ pc = "param"
    /\ links = 0
    /\ paused = FALSE /\ closed = FALSE /\ pointer = <<0, 0, 0, 0>>
    /\ held = FALSE
    /\ start_time = 0 /\ now = 0 /\ config = 0 /\ errlog = <<>>
    /\ param \in {Static(v) : v \in Values} \cup {NodeConnection(n) : n \in Nodes}
    /\ node_out \in [Nodes -> Values]
    /\ resolved = <<>>

NextParam == OrDefaultCall \/ NodeOutput

SpecParam == InitParam /\ [][NextParam]_vars

\* ================================================================ claims
\* ------------------------------------------------------- graph helpers
DependsOf(b) == {buffers[b].depends[j] : j \in 1..Len(buffers[b].depends)}

RECURSIVE ReachableFrom(_, _)
\* the buffers reachable from the set S along at most n dependency edges
ReachableFrom(S, n) ==
    IF n = 0 THEN S
    ELSE ReachableFrom(S \cup UNION {DependsOf(b) : b \in S}, n - 1)

\* no buffer reaches itself along one or more dependency edges
Acyclic ==
    \A b \in 1..Len(buffers) : b \notin ReachableFrom(DependsOf(b), Len(buffers))

\* the positions in the frame's log at which buffer d was drawn into its own
\* texture (render_to_self ran to completion)
SelfDraws(d) ==
    {k \in 1..Len(log) : log[k].op = "draw" /\ log[k].buf = d /\ log[k].target = d}

\* buffer d's texture holds a draw of this frame at log position k
DrawnBefore(k, d) ==
    \E m \in SelfDraws(d) :
       /\ m < k
       /\ \A c \in (m + 1)..(k - 1) : ~(log[c].op = "clear" /\ log[c].target = d)

\* the "buffer{i}" samplers of a uniform list, in order
BufferUniforms(uniforms) ==
    LET IsBuffer(u) == u.name[1] = "buffer" IN SelectSeq(uniforms, IsBuffer)

\* the value of the first uniform with the given name
UniformValue(uniforms, name) ==
    LET Named(u) == u.name = name IN SelectSeq(uniforms, Named)[1].value

\* the diamond: 1 depends on 2 and 3, which both depend on 4
Diamond ==
    /\ Len(buffers) = 4
    /\ buffers[1].depends = <<2, 3>>
    /\ buffers[2].depends = <<4>>
    /\ buffers[3].depends = <<4>>
    /\ buffers[4].depends = <<>>

\* no depends list names the same buffer twice
SimpleGraph ==
    \A b \in 1..Len(buffers) :
       Cardinality(DependsOf(b)) = Len(buffers[b].depends)

\* C1: on an acyclic graph (whose depends lists name each buffer once), one
\* render_to of the root draws every buffer into its own texture at most
\* once, and in the diamond the shared buffer exactly once by the time the
\* root has drawn.
C1_RenderedAtMostOnce ==
    (Acyclic /\ SimpleGraph) =>
       /\ \A d \in 1..Len(buffers) : Cardinality(SelfDraws(d)) <= 1
       /\ (Diamond /\ pc = "render" /\ stack = <<>>) => Cardinality(SelfDraws(4)) = 1

\* C2: when a buffer draws, each of its dependencies has drawn into its own
\* texture earlier in the frame and has not been cleared since; the calls on
\* the stack follow the depends lists depth-first and in order, and the
\* samplers pushed so far are those of the dependencies already rendered.
C2_DependsRenderedBeforeDraw ==
    /\ \A k \in 1..Len(log) :
          log[k].op = "draw" =>
             /\ \A d \in DependsOf(log[k].buf) : DrawnBefore(k, d)
             /\ BufferUniforms(log[k].uniforms) =
                   [j \in 1..Len(buffers[log[k].buf].depends) |->
                       DependUniform(log[k].buf, j)]
    /\ \A s \in 1..Len(stack) :
          /\ stack[s].i \in 1..(Len(buffers[stack[s].buf].depends) + 1)
          /\ BufferUniforms(stack[s].uniforms) =
                [j \in 1..(stack[s].i - 1) |-> DependUniform(stack[s].buf, j)]
          /\ s < Len(stack) =>
                /\ stack[s + 1].buf = buffers[stack[s].buf].depends[stack[s].i]
                /\ stack[s + 1].target = stack[s + 1].buf
                /\ \A j \in 1..(stack[s].i - 1) :
                      SelfDraws(buffers[stack[s].buf].depends[j]) # {}

\* C2 witness: the root of the diamond has drawn after both of its
\* dependencies, which share a dependency of their own
C2_Witness ==
    /\ Diamond
    /\ pc = "render" /\ stack = <<>>
    /\ log # <<>> /\ log[Len(log)].op = "draw" /\ log[Len(log)].buf = 1

\* C4: render_to is never running on a graph whose depends relation has a
\* cycle, and never runs out of stack recursing around one.
C4_NoCycleRendered ==
    /\ (stack # <<>>) => Acyclic
    /\ pc # "overflow"

\* ------------------------------------------------------------ main loop
\* the draw commands of the current frame
Draws == {k \in 1..Len(log) : log[k].op = "draw"}

\* a step of the Resized handler to width w and height h
ResizedTo(w, h) ==
    /\ pc = "events" /\ pc' = "events"
    /\ window' = TextureEmpty(w, h)
    /\ <<buffers, window>>' # <<buffers, window>>

\* programs, attachments and dependencies of the buffers
GraphOf(bufs) ==
    [b \in 1..Len(bufs) |->
        [program |-> bufs[b].program, attachments |-> bufs[b].attachments,
         depends |-> bufs[b].depends]]

TextureDims(bufs) == [b \in 1..Len(bufs) |-> <<bufs[b].texture.w, bufs[b].texture.h>>]

\* C3: a reload whose build fails reports the failure, leaves the buffers
\* built before in place and lets the loop go on to its event handling.
C3_FailedReloadKeepsGraph ==
    [][(pc = "signal" /\ errlog' # errlog)
          => (pc' = "events" /\ buffers' = buffers)]_vars

\* C5: in every draw of a frame, for a cursor at (x, y) with 0 <= y <= H on a
\* target of size W x H, the pointer uniform starts with x and H - y.
C5_PointerVerticalFlipped ==
    pc = "render" =>
       \A k \in Draws :
          LET dim == GetDimensions(log[k].target)
              ptr == UniformValue(log[k].uniforms, <<"pointer">>)
          IN (0 <= pointer[2] /\ pointer[2] <= dim[2]) =>
                (ptr[1] = pointer[1] /\ ptr[2] = dim[2] - pointer[2])

\* C8: a Resized(w, h) event leaves every buffer with a texture of exactly
\* w x h; no other event handler, nor the end of the event handling, nor the
\* start of the next iteration changes a texture's size; and every draw of a buffer into its own texture
\* has a target of the texture's size and binds that size as "resolution".
C8_ResizeSetsEveryTexture ==
    /\ [][/\ \A w \in Dims, h \in Dims :
               ResizedTo(w, h) =>
                  /\ Len(buffers') = Len(buffers)
                  /\ \A b \in 1..Len(buffers') :
                        buffers'[b].texture = TextureEmpty(w, h)
          /\ \/ pc = "loop"
             \/ pc = "events" /\ (pc' = "loop" \/ closed' # closed \/ pointer' # pointer)
             => TextureDims(buffers') = TextureDims(buffers)]_vars
    /\ [](pc = "render" =>
             \A k \in Draws :
                log[k].target # SURFACE =>
                   /\ log[k].target = log[k].buf
                   /\ UniformValue(log[k].uniforms, <<"resolution">>)
                         = TextureDims(buffers)[log[k].buf])

\* C8 witness: after a resize to a size other than the configured one, a
\* buffer rendered only as a dependency has drawn at the window's new size
C8_Witness ==
    /\ pc = "render"
    /\ \E k \in Draws :
          /\ log[k].buf # 1 /\ log[k].target = log[k].buf
          /\ UniformValue(log[k].uniforms, <<"resolution">>) = <<window.w, window.h>>
          /\ <<window.w, window.h>> #
                <<config[log[k].buf].width, config[log[k].buf].height>>

C10_NothingAfterClose ==
    [][closed => UNCHANGED <<buffers, window, stack, log, config, start_time>>]_vars

\* C10 amended: closed is set only by the event handling, between frames,
\* and never reset; once it is set no render starts and no reload happens,
\* the buffers change only by a resize handled in the same poll_events call,
\* and the loop ends.
C10_CloseEndsLoop ==
    /\ [][/\ closed' # closed => (pc = "events" /\ stack = <<>> /\ closed')
          /\ closed =>
               /\ closed'
               /\ UNCHANGED <<stack, log, config, start_time>>
               /\ pc' \in {"events", "loop", "done"}
               /\ GraphOf(buffers') = GraphOf(buffers)
               /\ <<buffers, window>>' # <<buffers, window>> =>
                     \E w \in Dims, h \in Dims : ResizedTo(w, h)
          /\ pc' = "done" => (pc \in {"loop", "done"} /\ closed)]_vars
    /\ [](closed => <>(pc = "done"))

\* C10 witness: the loop has ended after a close request
C10_Witness == closed /\ pc = "done"

\* ------------------------------------------------------------ parameters
\* C6: or_default on NodeConnection(n) returns node n's output of the moment
C6_LinkYieldsNodeOutput ==
    [][(Len(resolved') = Len(resolved) + 1 /\ param.kind = "NodeConnection")
          => resolved'[Len(resolved')] = node_out[param.node]]_vars

\* C7: or_default on Static(v) returns v on every call, whatever the nodes'
\* outputs are, and never changes the parameter.
C7_StaticYieldsValue ==
    /\ [](param.kind = "Static" =>
             \A k \in 1..Len(resolved) : resolved[k] = param.value)
    /\ [][param' = param]_vars

\* C7 witness: a Static parameter other than the default resolved twice,
\* with node outputs that differ from it
C7_Witness ==
    /\ param.kind = "Static" /\ param.value # DefaultValue
    /\ Len(resolved) = 2
    /\ \A n \in Nodes : node_out[n] # param.value

TextureUniforms(uniforms) ==
    LET IsTexture(u) == u.name[1] = "texture" IN SelectSeq(uniforms, IsTexture)

\* C12: a link_depends call leaves the dependencies linked before in place
\* and puts the new one behind them; and every draw binds, in order, exactly
\* the samplers texture0.. of the buffer's attachments and buffer0.. of its
\* dependencies' textures, each name once.
C12_SamplersInOrder ==
    /\ [][(pc = "link" /\ pc' = "link" /\ links' = links + 1) =>
             \E p \in 1..Len(buffers), d \in 1..Len(buffers) :
                buffers' = [buffers EXCEPT ![p].depends = Append(@, d)]]_vars
    /\ [](\A k \in Draws :
             LET b == buffers[log[k].buf]
                 u == log[k].uniforms
             IN /\ TextureUniforms(u) =
                      [i \in 1..Len(b.attachments) |->
                          [name |-> <<"texture", i - 1>>,
                           value |-> [kind |-> "attachment", id |-> b.attachments[i]]]]
                /\ BufferUniforms(u) =
                      [j \in 1..Len(b.depends) |->
                          [name |-> <<"buffer", j - 1>>,
                           value |-> [kind |-> "buffer", id |-> b.depends[j]]]]
                /\ \A i, j \in 1..Len(u) : u[i].name = u[j].name => i = j)

\* C12 witness: a buffer with two attachments and two different
\* dependencies, linked by two calls, has drawn
C12_Witness ==
    \E k \in Draws :
       LET b == buffers[log[k].buf]
       IN /\ Len(b.attachments) = 2
          /\ Len(b.depends) = 2 /\ b.depends[1] # b.depends[2]

\* ---------------------------------------------------------- frame effects
\* the buffers the root reaches along one or more dependency edges
RootDepends ==
    IF buffers = <<>> THEN {} ELSE ReachableFrom(DependsOf(1), Len(buffers))

\* C13: while the root, which is not among its own dependencies, is rendered onto the
\* surface, every clear and draw goes to the surface, by the root, or to the
\* own texture of the buffer issuing it, which the root reaches; a step
\* changes the texture of at most that buffer, and changes no attachment list;
\* so the textures of the root and of buffers it does not reach stay as they
\* were.
C13_TexturesWrittenByOwner ==
    /\ [](1 \notin RootDepends =>
             \A k \in 1..Len(log) :
                \/ log[k].target = SURFACE /\ log[k].buf = 1
                \/ log[k].target = log[k].buf /\ log[k].buf \in RootDepends)
    /\ [][(pc = "render" /\ 1 \notin RootDepends) =>
             /\ Len(buffers') = Len(buffers)
             /\ \A b \in 1..Len(buffers) :
                   /\ buffers'[b].attachments = buffers[b].attachments
                   /\ buffers'[b].texture # buffers[b].texture =>
                         /\ b \in RootDepends
                         /\ stack' # <<>> => b \in {Top.buf, Top'.buf}
                         /\ log'[Len(log')].buf = b /\ log'[Len(log')].target = b
                         /\ window' = window]_vars

\* C13 witness: the frame is complete; the root's dependencies hold a draw,
\* the root's own texture and that of an unreached buffer are untouched
C13_Witness ==
    /\ pc = "render" /\ stack = <<>>
    /\ 1 \notin RootDepends
    /\ window.pixels = "drawn"
    /\ buffers[1].texture.pixels = "empty"
    /\ Cardinality(RootDepends) >= 2
    /\ \A b \in RootDepends : buffers[b].texture.pixels = "drawn"
    /\ \E b \in 2..Len(buffers) :
          b \notin RootDepends /\ buffers[b].texture.pixels = "empty"

\* ---------------------------------------------------------------- pointer
\* C14: the drag origin is (0, 0) whenever the left button is not held, so
\* initially too; a press puts the cursor position into the drag origin and
\* leaves the position, a release zeroes the drag origin and leaves the
\* position, and any other change of the pointer state is a move, which
\* leaves the drag origin.
C14_DragOrigin ==
    /\ [](~held => (pointer[3] = 0 /\ pointer[4] = 0))
    /\ [][/\ (~held /\ held') => pointer' = <<pointer[1], pointer[2], pointer[1], pointer[2]>>
          /\ (held /\ ~held') => pointer' = <<pointer[1], pointer[2], 0, 0>>
          /\ (held' = held /\ pointer' # pointer) =>
                \/ <<pointer[3], pointer[4]>>' = <<pointer[3], pointer[4]>>
                \/ held /\ pointer' = <<pointer[1], pointer[2], pointer[1], pointer[2]>>
          /\ pointer' # pointer => pc = "events"]_vars

\* C14 witness: the button is held at a drag origin the cursor has moved
\* away from
C14_Witness ==
    /\ held
    /\ <<pointer[3], pointer[4]>> # <<0, 0>>
    /\ <<pointer[1], pointer[2]>> # <<pointer[3], pointer[4]>>

\* C15: in every draw of a frame on a target of height H, the drag-origin
\* part of the pointer uniform is (ox, H - oy) while the button is held at
\* drag origin (ox, oy), and (0, 0) while no drag is active.
C15_DragOriginUniform ==
    pc = "render" =>
       \A k \in Draws :
          LET dim == GetDimensions(log[k].target)
              ptr == UniformValue(log[k].uniforms, <<"pointer">>)
          IN IF held
             THEN ptr[3] = pointer[3] /\ ptr[4] = dim[2] - pointer[4]
             ELSE ptr[3] = 0 /\ ptr[4] = 0

Clears == {k \in 1..Len(log) : log[k].op = "clear"}

\* C17: on an acyclic graph a render_to of the root returns; every draw is
\* preceded by its own invocation's clear of the same target with no other
\* command on that target in between, so each invocation clears once and
\* draws once and the calls still running are those that have cleared and
\* not drawn; and when the root's call has returned, the last command is the
\* root's draw onto the surface, the only draw there.
C17_RenderTerminates ==
    /\ []((pc = "render" /\ Acyclic) => <>(stack = <<>>))
    /\ [](Acyclic =>
            /\ Len(stack) = Cardinality(Clears) - Cardinality(Draws)
            /\ \A k \in Draws :
                  \E c \in Clears :
                     /\ c < k
                     /\ log[c].buf = log[k].buf /\ log[c].target = log[k].target
                     /\ \A m \in (c + 1)..(k - 1) : log[m].target # log[k].target
            /\ (pc = "render" /\ stack = <<>>) =>
                  /\ log[Len(log)].op = "draw" /\ log[Len(log)].buf = 1
                  /\ log[Len(log)].target = SURFACE
                  /\ Cardinality({k \in Draws : log[k].target = SURFACE}) = 1)

\* C17 witness: the root's call has returned after at least three nested
\* invocations
C17_Witness ==
    /\ pc = "render" /\ stack = <<>> /\ Acyclic
    /\ Cardinality(Draws) >= 4
    /\ \E d \in DependsOf(1), e \in 1..Len(buffers) : e \in DependsOf(d)

\* the order of the phases of one iteration of the main loop
PhaseOrder ==
    {<<"loop", "render">>, <<"loop", "signal">>, <<"loop", "done">>,
     <<"render", "signal">>, <<"signal", "events">>, <<"signal", "exit1">>,
     <<"events", "loop">>}

\* C18: an iteration goes through at most one render, then one signal check,
\* then the window events, in this order; GPU commands are issued only in
\* the render phase; paused changes only at the signal check, in a step
\* that changes nothing else; SIGUSR1 leaves it set and SIGUSR2 leaves it
\* clear whatever it was, and a reload, a resize, a pointer or a close event
\* leaves it as it is.
C18_PhasesAndPaused ==
    /\ [][/\ pc' # pc => <<pc, pc'>> \in PhaseOrder
          /\ (log' # log \/ stack' # stack) => (pc = "render" \/ pc' = "render")
          /\ paused' # paused =>
                /\ pc = "signal" /\ pc' = "events"
                /\ UNCHANGED <<buffers, window, closed, pointer, start_time, now,
                               config, held, errlog>>
          /\ SIGUSR1 => paused'
          /\ SIGUSR2 => ~paused'
          /\ (SIGHUP \/ Resized \/ Closed \/ MouseMoved \/ Pressed \/ Released)
                => paused' = paused]_vars
    /\ [](pc = "signal" => /\ ENABLED (SIGUSR1 /\ paused')
                           /\ ENABLED (SIGUSR2 /\ ~paused'))

\* C18 witness: the program is paused although a reload, a resize, a press
\* and a pointer move have been handled since
C18_Witness ==
    /\ paused /\ pc = "loop"
    /\ start_time > 0 /\ held /\ pointer[1] # pointer[3]
    /\ window # TextureEmpty(1, 2)

====
